---- MODULE Spec2Model ----
(***************************************************************************)
(* State-machine model of the "--put" branch of main() in                  *)
(* ndo_epg_migration.py: the migration orchestrator, its remote calls      *)
(* (each wrapped by the request_logger decorator), the deployment status   *)
(* poll loop and the per-unit try/except IndexError scope.                 *)
(*                                                                         *)
(* Python values are modelled as follows: True/False/None are the strings  *)
(* "True"/"False"/"None"; a dict is a function from key strings to values  *)
(* (a missing key is a key outside the DOMAIN); a list is a sequence; a    *)
(* reference path string is the sequence of its "/"-separated segments,    *)
(* i.e. the result of str.split("/"), so "" is <<"">>.                     *)
(***************************************************************************)
EXTENDS Integers, Sequences, FiniteSets, TLC

(* ---- bounds of the model ---------------------------------------------- *)
\* longest source / destination row list read from the sheet
MaxUnits == 2
\* number of remote faults (non-2xx responses, tasks ending in Error) per run
MaxFaults == 1
\* longest subnet list of a bridge domain in the mapping specification
MaxSubnets == 2
\* number of patch function calls made in the patch-call specification
MaxCalls == 2

VARIABLES
    pc,                 \* position in main()
    exc,                \* exception that ended the run ("" while running)
    src_epgs,           \* list of source rows
    dst_epgs,           \* list of destination rows
    session,            \* "None" or "Session"
    ndo_schemas,        \* "None" or "Response" (result of get_ndo_schemas)
    ndo_schemas_json,   \* schema tree of that response (empty before)
    i,                  \* loop index of "for i in range(items)" (0-based)
    src_bd_tmpl_data,   \* reference into the tree, or Empty for {}
    src_epg_tmpl_data,
    src_bd_site_data,
    src_epg_site_data,
    ndo_bd_tmpl_dict,   \* the four skeleton dicts (aliased by dst_*_data)
    ndo_bd_site_dict,
    ndo_epg_tmpl_dict,
    ndo_epg_site_dict,
    deploy_id,          \* id of the task returned by the last deploy
    task,               \* remote: the task created by the last deploy
    store,              \* remote: declared and deployed configuration
    unsettled,          \* scopes with a task not yet observed terminal
    calls,              \* remote calls issued: session bootstrap, current unit
    warnings,           \* units skipped with the IndexError warning
    acks,               \* units after which input() was answered
    patch_args,         \* function and oper of the latest patch call
    faults              \* remote faults injected so far

vars == <<pc, exc, src_epgs, dst_epgs, session, ndo_schemas,
          ndo_schemas_json, i,
          src_bd_tmpl_data, src_epg_tmpl_data, src_bd_site_data,
          src_epg_site_data, ndo_bd_tmpl_dict, ndo_bd_site_dict,
          ndo_epg_tmpl_dict, ndo_epg_site_dict, deploy_id, task, store,
          unsettled, calls, warnings, acks, patch_args, faults>>

(* ---- Python dict / list helpers ---------------------------------------- *)
\* d[k] = v
Put(d, k, v) == [x \in (DOMAIN d) \cup {k} |-> IF x = k THEN v ELSE d[x]]

\* CopyKeys leaving the subnets of dst as they are
CopyKeysButSubnets(dst, src) ==
    [k \in DOMAIN dst |-> IF k = "subnets" THEN dst[k] ELSE src[k]]

\* "for key, value in dst.items(): dst[key] = src[key]" (KeyError when a
\* skeleton key is missing from src)
CanCopy(dst, src) == (DOMAIN dst) \subseteq (DOMAIN src)
CopyKeys(dst, src) == [k \in DOMAIN dst |-> src[k]]

\* ref.split("/")[k] raises IndexError when the path has too few segments
HasSeg(ref, k) == Len(ref) > k
Seg(ref, k) == ref[k + 1]

\* no patch function was called yet
NoArgs == [fn |-> "", oper |-> ""]

\* the empty dict {}: as an object, and as the value of a src_*_data variable
\* (these variables hold references into the schema tree, because Python
\* binds them to the tree's own dict objects)
EmptyDict == [x \in {} |-> x]
Empty == << >>

\* dict without key k (an object the store returned without that field)
Without(d, k) == [x \in (DOMAIN d) \ {k} |-> d[x]]

(* ---- the skeleton dicts (main, "Templates for the NDO objects") -------- *)
BdTmplSkeleton ==
    [arpFlood |-> "None", description |-> "", dhcpLabels |-> << >>,
     displayName |-> "", intersiteBumTrafficAllow |-> "None",
     l2Stretch |-> "None", l2UnknownUnicast |-> "", l3MCast |-> "None",
     multiDstPktAct |-> "", name |-> "", optimizeWanBandwidth |-> "None",
     subnets |-> << >>, unicastRouting |-> "None", unkMcastAct |-> "",
     v6unkMcastAct |-> "", vmac |-> "", vrfRef |-> ""]

BdSiteSkeleton ==
    [bdRef |-> <<"">>, hostBasedRouting |-> "None", l3OutRefs |-> << >>,
     l3Outs |-> << >>, mac |-> "", subnets |-> << >>]

EpgTmplSkeleton ==
    [bdRef |-> <<"">>, contractRelationships |-> << >>, description |-> "",
     displayName |-> "", epgType |-> "", intraEpg |-> "",
     mCastSource |-> "None", name |-> "", preferredGroup |-> "None",
     proxyArp |-> "None", selectors |-> << >>, subnets |-> << >>,
     uSegAttrs |-> << >>, uSegEpg |-> "None"]

EpgSiteSkeleton ==
    [domainAssociations |-> << >>, epgRef |-> <<"">>, selectors |-> << >>,
     staticLeafs |-> << >>, staticPorts |-> << >>, subnets |-> << >>,
     uSegAttrs |-> << >>]

(* ---- the schema tree returned by GET /mso/api/v1/schemas --------------- *)
\* reference paths of the source objects
SrcBdRef(n) == <<"", "schemas", "s1", "templates", "T1", "bds", n>>
SrcEpgRef(n) == <<"", "schemas", "s1", "templates", "T1", "anps", "AP1",
                  "epgs", n>>

TmplBd(n, stretch, nets) ==
    [arpFlood |-> "False", description |-> "", dhcpLabels |-> << >>,
     displayName |-> n, intersiteBumTrafficAllow |-> "False",
     l2Stretch |-> stretch, l2UnknownUnicast |-> "proxy", l3MCast |-> "False",
     multiDstPktAct |-> "bd-flood", name |-> n,
     optimizeWanBandwidth |-> "False", subnets |-> nets,
     unicastRouting |-> "True", unkMcastAct |-> "flood",
     v6unkMcastAct |-> "flood", vmac |-> "00:AA", vrfRef |-> "vrfSrc",
     uuid |-> n, bdRef |-> SrcBdRef(n)]

SiteBd(n, nets) ==
    [bdRef |-> SrcBdRef(n), hostBasedRouting |-> "False",
     l3OutRefs |-> <<"l3oSrcRef">>, l3Outs |-> <<"l3oSrc">>, mac |-> "00:22",
     subnets |-> nets]

TmplEpg(n, bd) ==
    [bdRef |-> SrcBdRef(bd), contractRelationships |-> << >>,
     description |-> "", displayName |-> n, epgType |-> "application",
     intraEpg |-> "unenforced", mCastSource |-> "False", name |-> n,
     preferredGroup |-> "False", proxyArp |-> "False", selectors |-> << >>,
     subnets |-> << >>, uSegAttrs |-> << >>, uSegEpg |-> "False",
     uuid |-> n, epgRef |-> SrcEpgRef(n)]

SiteEpg(n, ports) ==
    [domainAssociations |-> <<"phys">>, epgRef |-> SrcEpgRef(n),
     selectors |-> << >>, staticLeafs |-> << >>, staticPorts |-> ports,
     subnets |-> << >>, uSegAttrs |-> << >>]

\* One schema "s1" with one template T1 deployed to one site.  BD1 is
\* stretched, BD2 is site-local and has no vmac field, BD3 was returned
\* without the v6unkMcastAct field.
SchemaTree ==
    [schemas |-> <<
        [id |-> "s1",
         templates |-> <<
            [templateID |-> "t1", name |-> "T1",
             bds |-> << TmplBd("BD1", "True", <<[ip |-> "10.14.1.1/24"]>>),
                        Without(TmplBd("BD2", "False", << >>), "vmac"),
                        Without(TmplBd("BD3", "True", << >>),
                                "v6unkMcastAct") >>,
             anps |-> << [name |-> "AP1",
                          epgs |-> << TmplEpg("EPG1", "BD1"),
                                      TmplEpg("EPG2", "BD2"),
                                      TmplEpg("EPG3", "BD3") >>] >>] >>,
         sites |-> <<
            [siteId |-> "site1", templateName |-> "T1",
             bds |-> << SiteBd("BD1", << >>),
                        SiteBd("BD2", <<[ip |-> "10.17.2.1/24"]>>),
                        SiteBd("BD3", << >>) >>,
             anps |-> << [anpRef |-> "AP1",
                          epgs |-> << SiteEpg("EPG1", <<"eth1/1">>),
                                      SiteEpg("EPG2", <<"eth1/2">>),
                                      SiteEpg("EPG3", << >>) >>] >>] >>] >>]

EmptyTree == [schemas |-> << >>]

(* ---- rows of the "EPG Selection" sheet ---------------------------------- *)
SrcRow(schm, tmpl, site, n, k) ==
    [schemaId |-> schm, templId |-> tmpl, templName |-> "T1", siteId |-> site,
     epgName |-> n, bdTemplId |-> k, anpTemplId |-> 0, epgTemplId |-> k,
     bdSiteId |-> k, anpSiteId |-> 0, epgSiteId |-> k]

\* a unit of a stretched BD, a unit of a site-local BD without vmac, a unit
\* whose BD lacks a skeleton field, a unit whose indices are past the end of
\* the lists, a unit of a schema the tree does not hold
SrcRows ==
    { SrcRow("s1", "t1", "site1", "EPG1", 0),
      SrcRow("s1", "t1", "site1", "EPG2", 1),
      SrcRow("s1", "t1", "site1", "EPG3", 2),
      SrcRow("s1", "t1", "site1", "EPG9", 3),
      SrcRow("s9", "t1", "site1", "EPG1", 0) }

DstRow(bd, epg, anp) ==
    [schemaId |-> "s2", templName |-> "T2", siteId |-> "site2",
     vrfRef |-> "vrfDst", bdName |-> bd, epgName |-> epg, anpRef |-> anp,
     bdL3Out1 |-> "L3OUT-A", bdL3OutRef1 |-> "refA",
     bdL3Out2 |-> "L3OUT-B", bdL3OutRef2 |-> "refB",
     consContract |-> "ctrDst"]

\* the destination rows of the sheet: row k (1-based), all in template T2 of
\* schema s2
DstRowAt(k) ==
    IF k % 2 = 1
    THEN DstRow("WB-BD1", "EPGN",
                <<"", "schemas", "s2", "templates", "T2", "anps", "AP2">>)
    ELSE DstRow("YK-BD2", "EPGM",
                <<"", "schemas", "s2", "templates", "T2", "anps", "AP2">>)
DstSheets == { [k \in 1..n |-> DstRowAt(k)] : n \in 0..MaxUnits }

RECURSIVE SeqsUpTo(_, _)
SeqsUpTo(S, n) ==
    IF n = 0 THEN { << >> }
    ELSE LET shorter == SeqsUpTo(S, n - 1)
         IN  shorter \cup { Append(q, x) : q \in shorter, x \in S }

\* the source sheets: each EPG is listed once
NoRepeat(q) == \A a, b \in DOMAIN q : q[a] = q[b] => a = b
SrcSheets == { q \in SeqsUpTo(SrcRows, MaxUnits) : NoRepeat(q) }

(* ---- Resolve: main, "Iterate through the schemas ..." ------------------- *)
Deref(tree, ref) ==
    IF ref = Empty THEN EmptyDict
    ELSE IF ref[1] = "tbd"
         THEN tree.schemas[ref[2]].templates[ref[3]].bds[ref[4]]
    ELSE IF ref[1] = "tepg"
         THEN tree.schemas[ref[2]].templates[ref[3]].anps[ref[4]].epgs[ref[5]]
    ELSE IF ref[1] = "sbd"
         THEN tree.schemas[ref[2]].sites[ref[3]].bds[ref[4]]
    ELSE tree.schemas[ref[2]].sites[ref[3]].anps[ref[4]].epgs[ref[5]]

\* lst[k] of a Python list with a 0-based index k >= 0
InRange(lst, k) == k < Len(lst)

\* "for tmpl in schema['templates']": templates t.. of schema s
RECURSIVE ResolveTmpls(_, _, _, _, _)
ResolveTmpls(tree, s, t, row, st) ==
    LET tmpls == tree.schemas[s].templates IN
    IF st.err \/ t > Len(tmpls) THEN st
    ELSE IF tmpls[t].templateID # row.templId
         THEN ResolveTmpls(tree, s, t + 1, row, st)
    ELSE IF ~InRange(tmpls[t].bds, row.bdTemplId)
         THEN [st EXCEPT !.err = TRUE]
    ELSE LET st1 == [st EXCEPT !.bdT = <<"tbd", s, t, row.bdTemplId + 1>>] IN
         IF \/ ~InRange(tmpls[t].anps, row.anpTemplId)
            \/ ~InRange(tmpls[t].anps[row.anpTemplId + 1].epgs, row.epgTemplId)
         THEN [st1 EXCEPT !.err = TRUE]
         ELSE ResolveTmpls(tree, s, t + 1, row,
                  [st1 EXCEPT !.epgT = <<"tepg", s, t, row.anpTemplId + 1,
                                          row.epgTemplId + 1>>])

\* "for site in schema['sites']": sites k.. of schema s
RECURSIVE ResolveSites(_, _, _, _, _)
ResolveSites(tree, s, k, row, st) ==
    LET sites == tree.schemas[s].sites IN
    IF st.err \/ k > Len(sites) THEN st
    ELSE IF sites[k].siteId # row.siteId
         THEN ResolveSites(tree, s, k + 1, row, st)
    ELSE IF ~InRange(sites[k].bds, row.bdSiteId)
         THEN [st EXCEPT !.err = TRUE]
    ELSE LET st1 == [st EXCEPT !.bdS = <<"sbd", s, k, row.bdSiteId + 1>>] IN
         IF \/ ~InRange(sites[k].anps, row.anpSiteId)
            \/ ~InRange(sites[k].anps[row.anpSiteId + 1].epgs, row.epgSiteId)
         THEN [st1 EXCEPT !.err = TRUE]
         ELSE ResolveSites(tree, s, k + 1, row,
                  [st1 EXCEPT !.epgS = <<"sepg", s, k, row.anpSiteId + 1,
                                          row.epgSiteId + 1>>])

\* "for schema in ndo_schemas_json['schemas']": schemas s..
RECURSIVE ResolveSchemas(_, _, _, _)
ResolveSchemas(tree, s, row, st) ==
    IF st.err \/ s > Len(tree.schemas) THEN st
    ELSE IF tree.schemas[s].id # row.schemaId
         THEN ResolveSchemas(tree, s + 1, row, st)
    ELSE ResolveSchemas(tree, s + 1, row,
             ResolveSites(tree, s, 1, row, ResolveTmpls(tree, s, 1, row, st)))

(* ---- the remote store: declared and deployed configuration facts -------- *)
\* A fact is <<kind, reference path>>, kind one of "bd", "epg", "ports" (the
\* site EPG at that path has static ports).  A deployment task that completes
\* makes the deployed facts of its (schema, template) scope equal to the
\* declared ones.
ScopeOf(ref) == <<Seg(ref, 2), Seg(ref, 4)>>

StoreFacts(tree) ==
    UNION { UNION {
        { <<"bd", tree.schemas[s].templates[t].bds[b].bdRef>> :
              b \in DOMAIN tree.schemas[s].templates[t].bds }
        \cup UNION { { <<"epg", tree.schemas[s].templates[t].anps[a].epgs[e].epgRef>> :
              e \in DOMAIN tree.schemas[s].templates[t].anps[a].epgs } :
              a \in DOMAIN tree.schemas[s].templates[t].anps }
        : t \in DOMAIN tree.schemas[s].templates }
      \cup UNION { UNION { { <<"ports", tree.schemas[s].sites[k].anps[a].epgs[e].epgRef>> :
              e \in { x \in DOMAIN tree.schemas[s].sites[k].anps[a].epgs :
                        tree.schemas[s].sites[k].anps[a].epgs[x].staticPorts # << >> } } :
              a \in DOMAIN tree.schemas[s].sites[k].anps } :
              k \in DOMAIN tree.schemas[s].sites }
      : s \in DOMAIN tree.schemas }

Deployed(st, scope) ==
    [st EXCEPT !.deployed =
        { f \in st.deployed : ScopeOf(f[2]) # scope }
        \cup { f \in st.declared : ScopeOf(f[2]) = scope }]

(* ---- initial state: the sheet has been read, nothing was sent ----------- *)
Init ==
    /\ pc = "login"
    /\ exc = ""
    /\ src_epgs \in SrcSheets
    /\ dst_epgs \in DstSheets
    /\ session = "None"
    /\ ndo_schemas = "None"
    /\ ndo_schemas_json = EmptyTree
    /\ i = 0
    /\ src_bd_tmpl_data = Empty
    /\ src_epg_tmpl_data = Empty
    /\ src_bd_site_data = Empty
    /\ src_epg_site_data = Empty
    /\ ndo_bd_tmpl_dict = BdTmplSkeleton
    /\ ndo_bd_site_dict = BdSiteSkeleton
    /\ ndo_epg_tmpl_dict = EpgTmplSkeleton
    /\ ndo_epg_site_dict = EpgSiteSkeleton
    /\ deploy_id = 0
    /\ task = [id |-> 0, scope |-> <<"", "">>, status |-> "None"]
    /\ store = [declared |-> StoreFacts(SchemaTree),
                deployed |-> StoreFacts(SchemaTree)]
    /\ unsettled = {}
    /\ calls = << >>
    /\ warnings = << >>
    /\ acks = << >>
    /\ patch_args = NoArgs
    /\ faults = 0

(* ---- Map: main, "Create dictionaries based on the templates" ------------ *)
\* str.startswith on the strings of the model
Prefixes ==
    { <<"10.14.1.1/24", "10.14">>, <<"10.17.2.1/24", "10.17">>,
      <<"WB-BD1", "WB">>, <<"YK-BD2", "YK">> }
StartsWith(str, prefix) == <<str, prefix>> \in Prefixes

\* "try: vmac = src['vmac'] except KeyError: src.setdefault('vmac', '')"
SetDefaultVmac(src) ==
    IF "vmac" \in DOMAIN src THEN src ELSE Put(src, "vmac", "")

\* MapBdCopy with the site-local branch copying like the stretched one
MapBdCopyPlain(srcT, srcS, dT, dS) ==
    LET src1 == SetDefaultVmac(srcT) IN
    IF \/ "l2Stretch" \notin DOMAIN srcT
       \/ ~CanCopy(dT, src1) \/ ~CanCopy(dS, srcS)
    THEN [err |-> TRUE, bdT |-> dT, bdS |-> dS, srcT |-> srcT]
    ELSE [err |-> FALSE, bdT |-> CopyKeys(dT, src1),
          bdS |-> CopyKeys(dS, srcS), srcT |-> src1]

\* the l2Stretch branches; err is the KeyError of a missing source field
MapBdCopy(srcT, srcS, dT, dS) ==
    LET keyError == [err |-> TRUE, bdT |-> dT, bdS |-> dS, srcT |-> srcT]
        src1 == SetDefaultVmac(srcT)
    IN  IF "l2Stretch" \notin DOMAIN srcT THEN keyError
        ELSE IF srcT.l2Stretch = "True"
        THEN IF ~CanCopy(dT, src1) \/ ~CanCopy(dS, srcS) THEN keyError
             ELSE [err |-> FALSE, bdT |-> CopyKeys(dT, src1),
                   bdS |-> CopyKeys(dS, srcS), srcT |-> src1]
        ELSE IF srcT.l2Stretch = "False"
        THEN IF \/ ~CanCopy(dT, src1)
                \/ "subnets" \notin DOMAIN srcS
                \/ ~CanCopy(dS, srcS)
             THEN keyError
             ELSE [err |-> FALSE,
                   bdT |-> [CopyKeys(dT, src1) EXCEPT
                               !["arpFlood"] = "True",
                               !["intersiteBumTrafficAllow"] = "True",
                               !["l2Stretch"] = "True",
                               !["optimizeWanBandwidth"] = "True",
                               !["subnets"] = srcS["subnets"]],
                   bdS |-> CopyKeys(dS, srcS), srcT |-> src1]
        ELSE [err |-> FALSE, bdT |-> dT, bdS |-> dS, srcT |-> srcT]

\* HostBasedRouting deciding on the subnet address alone
RECURSIVE HostBasedRoutingByIp(_, _, _, _)
HostBasedRoutingByIp(subnets, k, bdName, hbr) ==
    IF k > Len(subnets) THEN hbr
    ELSE HostBasedRoutingByIp(subnets, k + 1, bdName,
             IF \/ StartsWith(subnets[k].ip, "10.14")
                \/ StartsWith(subnets[k].ip, "10.17")
             THEN "True" ELSE "False")

\* HostBasedRouting staying true once a subnet matched
RECURSIVE HostBasedRoutingAny(_, _, _, _)
HostBasedRoutingAny(subnets, k, bdName, hbr) ==
    IF k > Len(subnets) THEN hbr
    ELSE HostBasedRoutingAny(subnets, k + 1, bdName,
             IF StartsWith(subnets[k].ip, "10.14") /\ StartsWith(bdName, "WB")
             THEN "True"
             ELSE IF StartsWith(subnets[k].ip, "10.17")
                     /\ StartsWith(bdName, "YK")
             THEN "True"
             ELSE IF k = 1 THEN "False" ELSE hbr)

\* "for subnet in dst_bd_tmpl_data['subnets']": subnets k.. , hbr so far
RECURSIVE HostBasedRouting(_, _, _, _)
HostBasedRouting(subnets, k, bdName, hbr) ==
    IF k > Len(subnets) THEN hbr
    ELSE HostBasedRouting(subnets, k + 1, bdName,
             IF StartsWith(subnets[k].ip, "10.14") /\ StartsWith(bdName, "WB")
             THEN "True"
             ELSE IF StartsWith(subnets[k].ip, "10.17")
                     /\ StartsWith(bdName, "YK")
             THEN "True"
             ELSE "False")

\* DstBdRef ending in the EPG name of the row instead of its BD name
DstBdRefOfEpg(dst) ==
    <<"", "schemas", dst.schemaId, "templates", dst.templName, "bds",
      dst.epgName>>

\* "/schemas/%(schm)s/templates/%(tmpl)s/bds/%(bd)s"
DstBdRef(dst) ==
    <<"", "schemas", dst.schemaId, "templates", dst.templName, "bds",
      dst.bdName>>

\* DstEpgRef without the "epgs" segment
DstEpgRefOfAnp(dst, name) == dst.anpRef \o <<name>>

\* "%(anpR)s/epgs/%(epg)s"
DstEpgRef(dst, name) == dst.anpRef \o <<"epgs", name>>

\* MapBd without the l3Outs and l3OutRefs assignments
MapBdKeepsSourceL3Outs(srcT, srcS, dT, dS, dst) ==
    LET c == MapBdCopy(srcT, srcS, dT, dS)
        bdT == [c.bdT EXCEPT !["name"] = dst.bdName,
                             !["displayName"] = dst.bdName,
                             !["vrfRef"] = dst.vrfRef]
        bdS == [c.bdS EXCEPT
                   !["hostBasedRouting"] =
                       HostBasedRouting(bdT["subnets"], 1, dst.bdName,
                                        c.bdS["hostBasedRouting"]),
                   !["bdRef"] = DstBdRef(dst)]
    IN  IF c.err THEN c
        ELSE [err |-> FALSE, bdT |-> bdT, bdS |-> bdS, srcT |-> c.srcT]

\* destination BD payloads (the l3Outs .. bdRef assignments)
MapBd(srcT, srcS, dT, dS, dst) ==
    LET c == MapBdCopy(srcT, srcS, dT, dS)
        bdT == [c.bdT EXCEPT !["name"] = dst.bdName,
                             !["displayName"] = dst.bdName,
                             !["vrfRef"] = dst.vrfRef]
        bdS == [c.bdS EXCEPT
                   !["l3Outs"] = <<dst.bdL3Out1, dst.bdL3Out2>>,
                   !["l3OutRefs"] = <<dst.bdL3OutRef1, dst.bdL3OutRef2>>,
                   !["hostBasedRouting"] =
                       HostBasedRouting(bdT["subnets"], 1, dst.bdName,
                                        c.bdS["hostBasedRouting"]),
                   !["bdRef"] = DstBdRef(dst)]
    IN  IF c.err THEN c
        ELSE [err |-> FALSE, bdT |-> bdT, bdS |-> bdS, srcT |-> c.srcT]

\* MapEpg without the bdRef assignment
MapEpgKeepsSourceBdRef(srcT, srcS, dT, dS, bdRef, dst) ==
    IF ~CanCopy(dT, srcT) \/ ~CanCopy(dS, srcS)
    THEN [err |-> TRUE, epgT |-> dT, epgS |-> dS]
    ELSE [err |-> FALSE,
          epgT |-> [CopyKeys(dT, srcT) EXCEPT
                       !["name"] = dst.epgName,
                       !["displayName"] = dst.epgName,
                       !["preferredGroup"] = "True"],
          epgS |-> [CopyKeys(dS, srcS) EXCEPT
                       !["epgRef"] = DstEpgRef(dst, dst.epgName)]]

\* destination EPG payloads; contract_relationships is built but never stored
MapEpg(srcT, srcS, dT, dS, bdRef, dst) ==
    IF ~CanCopy(dT, srcT) \/ ~CanCopy(dS, srcS)
    THEN [err |-> TRUE, epgT |-> dT, epgS |-> dS]
    ELSE [err |-> FALSE,
          epgT |-> [CopyKeys(dT, srcT) EXCEPT
                       !["bdRef"] = bdRef,
                       !["name"] = dst.epgName,
                       !["displayName"] = dst.epgName,
                       !["preferredGroup"] = "True"],
          epgS |-> [CopyKeys(dS, srcS) EXCEPT
                       !["epgRef"] = DstEpgRef(dst, dst.epgName)]]

\* the tree after src_bd_tmpl_data.setdefault("vmac", "")
SetObject(tree, ref, obj) ==
    IF ref = Empty THEN tree
    ELSE [tree EXCEPT !.schemas[ref[2]].templates[ref[3]].bds[ref[4]] = obj]

(* ---- locals of main() that are functions of the state ------------------- *)
items == Len(src_epgs)
Src == src_epgs[i + 1]
Dst == dst_epgs[i + 1]
SrcBdTmpl == Deref(ndo_schemas_json, src_bd_tmpl_data)
SrcEpgTmpl == Deref(ndo_schemas_json, src_epg_tmpl_data)
SrcBdSite == Deref(ndo_schemas_json, src_bd_site_data)
SrcEpgSite == Deref(ndo_schemas_json, src_epg_site_data)
\* bd_ref, epg_ref, schm_id/tmpl_name, src_schm_id/src_tmpl_name
bd_ref == ndo_bd_site_dict["bdRef"]
epg_ref == ndo_epg_site_dict["epgRef"]
DstScope == <<Dst.schemaId, Dst.templName>>
SrcScope == <<Src.schemaId, Src.templName>>

\* the source site EPG's static ports are deployed on the fabric
SrcPortsLive ==
    /\ "epgRef" \in DOMAIN SrcEpgSite
    /\ <<"ports", SrcEpgSite["epgRef"]>> \in store.deployed

\* a task created on the scope has not been observed Complete or Error
Busy(scope) == \E t \in unsettled : t[2] = scope

\* one remote call as recorded in the history
Entry(step, kind, scope, res) ==
    [u |-> i, step |-> step, kind |-> kind, scope |-> scope, res |-> res,
     busy |-> Busy(scope), portsLive |-> SrcPortsLive]

\* paths built by the patch functions from a split reference and a name
TmplBdPath(ref, name) ==
    <<"", "schemas", Seg(ref, 2), "templates", Seg(ref, 4), "bds", name>>
TmplEpgPath(ref, name) ==
    <<"", "schemas", Seg(ref, 2), "templates", Seg(ref, 4), "anps",
      Seg(ref, 6), "epgs", name>>

(* ---- how an exception leaves the per-unit try block --------------------- *)
\* SkipUnit without the "except IndexError" clause: the IndexError ends the run
SkipUnitUncaught ==
    /\ pc' = "crashed"
    /\ exc' = "IndexError"
    /\ UNCHANGED <<i, warnings>>

\* "except IndexError": warning, next iteration of the for loop
SkipUnit ==
    /\ warnings' = Append(warnings, i)
    /\ i' = i + 1
    /\ pc' = "loop"
    /\ exc' = exc

\* any other exception is not caught: the run ends
Crash(e) ==
    /\ pc' = "crashed"
    /\ exc' = e
    /\ UNCHANGED <<i, warnings>>

Goto(next) ==
    /\ pc' = next
    /\ UNCHANGED <<exc, i, warnings>>

(* ---- session bootstrap and schema read ---------------------------------- *)
\* get_ndo_session under request_logger: a failed login is logged and None
\* is returned
Login ==
    /\ pc = "login"
    /\ \E ok \in BOOLEAN :
        /\ ok \/ faults < MaxFaults
        /\ faults' = IF ok THEN faults ELSE faults + 1
        /\ session' = IF ok THEN "Session" ELSE "None"
        /\ calls' = Append(calls, Entry("login", "login", <<"", "">>,
                                        IF ok THEN "ok" ELSE "fail"))
    /\ Goto("get_schemas")
    /\ UNCHANGED <<src_epgs, dst_epgs, ndo_schemas, ndo_schemas_json,
                   src_bd_tmpl_data, src_epg_tmpl_data, src_bd_site_data,
                   src_epg_site_data, ndo_bd_tmpl_dict, ndo_bd_site_dict,
                   ndo_epg_tmpl_dict, ndo_epg_site_dict, deploy_id, task,
                   store, unsettled, acks, patch_args>>

\* GetSchemas reading the schemas whatever the login returned
GetSchemasAnySession ==
    /\ pc = "get_schemas"
    /\ calls' = Append(calls, Entry("get_schemas", "read", <<"", "">>, "ok"))
    /\ ndo_schemas' = "Response"
    /\ ndo_schemas_json' = SchemaTree
    /\ Goto("validate")
    /\ UNCHANGED <<src_epgs, dst_epgs, session, faults,
                   src_bd_tmpl_data, src_epg_tmpl_data, src_bd_site_data,
                   src_epg_site_data, ndo_bd_tmpl_dict, ndo_bd_site_dict,
                   ndo_epg_tmpl_dict, ndo_epg_site_dict, deploy_id, task,
                   store, unsettled, acks, patch_args>>

\* get_ndo_schemas and ndo_schemas.json(): session.get on None and .json()
\* on None raise AttributeError, which nothing catches
GetSchemas ==
    /\ pc = "get_schemas"
    /\ IF session = "None"
       THEN /\ Crash("AttributeError")
            /\ UNCHANGED <<ndo_schemas, ndo_schemas_json, calls, faults>>
       ELSE \E ok \in BOOLEAN :
            /\ ok \/ faults < MaxFaults
            /\ faults' = IF ok THEN faults ELSE faults + 1
            /\ calls' = Append(calls, Entry("get_schemas", "read", <<"", "">>,
                                            IF ok THEN "ok" ELSE "fail"))
            /\ IF ok
               THEN /\ ndo_schemas' = "Response"
                    /\ ndo_schemas_json' = SchemaTree
                    /\ Goto("validate")
               ELSE /\ Crash("AttributeError")
                    /\ UNCHANGED <<ndo_schemas, ndo_schemas_json>>
    /\ UNCHANGED <<src_epgs, dst_epgs, session,
                   src_bd_tmpl_data, src_epg_tmpl_data, src_bd_site_data,
                   src_epg_site_data, ndo_bd_tmpl_dict, ndo_bd_site_dict,
                   ndo_epg_tmpl_dict, ndo_epg_site_dict, deploy_id, task,
                   store, unsettled, acks, patch_args>>

\* the variables no step of main() before the first patch touches
RemoteUnchanged == UNCHANGED <<deploy_id, task, store, unsettled, calls,
                               faults, acks, patch_args>>
InputsUnchanged == UNCHANGED <<src_epgs, dst_epgs, session, ndo_schemas>>
SkeletonsUnchanged == UNCHANGED <<ndo_bd_tmpl_dict, ndo_bd_site_dict,
                                  ndo_epg_tmpl_dict, ndo_epg_site_dict>>
SourcesUnchanged == UNCHANGED <<ndo_schemas_json, src_bd_tmpl_data,
                                src_epg_tmpl_data, src_bd_site_data,
                                src_epg_site_data>>

\* Validate without the assert: the loop is entered whatever the lengths
ValidateUnchecked ==
    /\ pc = "validate"
    /\ pc' = "loop"
    /\ UNCHANGED <<exc, i, warnings>>
    /\ InputsUnchanged /\ SkeletonsUnchanged /\ SourcesUnchanged
    /\ RemoteUnchanged

\* "assert len(src_epgs) == len(dst_epgs)" ... "sys.exit()"
Validate ==
    /\ pc = "validate"
    /\ IF Len(src_epgs) = Len(dst_epgs)
       THEN Goto("loop")
       ELSE Crash("SystemExit")
    /\ InputsUnchanged /\ SkeletonsUnchanged /\ SourcesUnchanged
    /\ RemoteUnchanged

\* the calls made before the loop (login, schema read)
IsBootstrap(e) == e.kind \in {"login", "read"}

\* Loop fetching the schemas again at the start of every unit
LoopRefetch ==
    /\ pc = "loop"
    /\ IF i < items
       THEN /\ Goto("resolve")
            /\ calls' = Append(SelectSeq(calls, IsBootstrap),
                               Entry("get_schemas", "read", <<"", "">>, "ok"))
            /\ ndo_schemas_json' = SchemaTree
       ELSE Goto("done") /\ UNCHANGED <<calls, ndo_schemas_json>>
    /\ InputsUnchanged /\ SkeletonsUnchanged
    /\ UNCHANGED <<src_bd_tmpl_data, src_epg_tmpl_data, src_bd_site_data,
                   src_epg_site_data>>
    /\ UNCHANGED <<deploy_id, task, store, unsettled, faults, acks,
                   patch_args>>

\* "for i in range(items)" and the log line after the loop; the history
\* starts afresh with each unit
Loop ==
    /\ pc = "loop"
    /\ IF i < items
       THEN Goto("resolve") /\ calls' = SelectSeq(calls, IsBootstrap)
       ELSE Goto("done") /\ UNCHANGED calls
    /\ InputsUnchanged /\ SkeletonsUnchanged /\ SourcesUnchanged
    /\ UNCHANGED <<deploy_id, task, store, unsettled, faults, acks,
                   patch_args>>

\* the lookup loops; an IndexError leaves the assignments made before it
Resolve ==
    /\ pc = "resolve"
    /\ LET st == ResolveSchemas(ndo_schemas_json, 1, Src,
                     [bdT |-> src_bd_tmpl_data, epgT |-> src_epg_tmpl_data,
                      bdS |-> src_bd_site_data, epgS |-> src_epg_site_data,
                      err |-> FALSE])
       IN  /\ src_bd_tmpl_data' = st.bdT
           /\ src_epg_tmpl_data' = st.epgT
           /\ src_bd_site_data' = st.bdS
           /\ src_epg_site_data' = st.epgS
           /\ IF st.err THEN SkipUnit ELSE Goto("map")
    /\ UNCHANGED ndo_schemas_json
    /\ InputsUnchanged /\ SkeletonsUnchanged /\ RemoteUnchanged

\* the payload construction; a KeyError is not caught by "except IndexError",
\* the IndexError of dst_epgs[i] (first read after the BD copy loops) is
Map ==
    /\ pc = "map"
    /\ LET c == MapBdCopy(SrcBdTmpl, SrcBdSite, ndo_bd_tmpl_dict,
                          ndo_bd_site_dict)
       IN  IF c.err
           THEN /\ Crash("KeyError")
                /\ SkeletonsUnchanged
                /\ UNCHANGED ndo_schemas_json
           ELSE IF ~InRange(dst_epgs, i)
           THEN /\ SkipUnit
                /\ ndo_bd_tmpl_dict' = c.bdT
                /\ ndo_bd_site_dict' = c.bdS
                /\ ndo_schemas_json' =
                       SetObject(ndo_schemas_json, src_bd_tmpl_data, c.srcT)
                /\ UNCHANGED <<ndo_epg_tmpl_dict, ndo_epg_site_dict>>
           ELSE LET b == MapBd(SrcBdTmpl, SrcBdSite, ndo_bd_tmpl_dict,
                               ndo_bd_site_dict, Dst)
                    e == MapEpg(SrcEpgTmpl, SrcEpgSite, ndo_epg_tmpl_dict,
                                ndo_epg_site_dict, b.bdS["bdRef"], Dst)
                IN  IF e.err
                    THEN /\ Crash("KeyError")
                         /\ SkeletonsUnchanged
                         /\ UNCHANGED ndo_schemas_json
                    ELSE /\ ndo_bd_tmpl_dict' = b.bdT
                         /\ ndo_bd_site_dict' = b.bdS
                         /\ ndo_epg_tmpl_dict' = e.epgT
                         /\ ndo_epg_site_dict' = e.epgS
                         /\ ndo_schemas_json' =
                                SetObject(ndo_schemas_json, src_bd_tmpl_data,
                                          b.srcT)
                         /\ Goto("dst_bd_add")
    /\ UNCHANGED <<src_bd_tmpl_data, src_epg_tmpl_data, src_bd_site_data,
                   src_epg_site_data>>
    /\ InputsUnchanged /\ RemoteUnchanged

(* ---- the remote calls of one unit --------------------------------------- *)
\* the patch functions, the operations a caller may pass, and the
\* "allowed_ops" list of each function
PatchFns ==
    {"patch_ndo_tmpl_bds", "patch_ndo_site_bds", "patch_ndo_tmpl_epgs",
     "patch_ndo_site_epgs", "patch_ndo_epg_static_ports"}
Opers == {"add", "remove", "replace", "merge"}

\* AllowedOps with every operation allowed
AllowedOpsAny(fn) == Opers

AllowedOps(fn) ==
    IF fn \in {"patch_ndo_tmpl_bds", "patch_ndo_tmpl_epgs"}
    THEN {"add", "remove"}
    ELSE {"remove", "replace"}

\* A patch function under request_logger.  An operation outside allowed_ops
\* raises ValueError, which the decorator does not catch (it is no
\* RequestException) and main does not catch either.  The split of the
\* reference raises IndexError (caught by main: the unit is skipped), a
\* missing data['name'] raises KeyError (not caught); otherwise the PATCH is
\* sent, and a non-2xx answer or transport error is logged by the decorator
\* and main goes on.
PatchStep(step, fn, oper, ref, needSeg, keyOk, effect, next) ==
    /\ pc = step
    /\ patch_args' = [fn |-> fn, oper |-> oper]
    /\ IF oper \notin AllowedOps(fn)
       THEN Crash("ValueError") /\ UNCHANGED <<calls, store, faults>>
       ELSE IF ~HasSeg(ref, needSeg)
       THEN SkipUnit /\ UNCHANGED <<calls, store, faults>>
       ELSE IF ~keyOk
       THEN Crash("KeyError") /\ UNCHANGED <<calls, store, faults>>
       ELSE \E ok \in BOOLEAN :
            /\ ok \/ faults < MaxFaults
            /\ faults' = IF ok THEN faults ELSE faults + 1
            /\ calls' = Append(calls, Entry(step, "patch", ScopeOf(ref),
                                            IF ok THEN "ok" ELSE "fail"))
            /\ store' = IF ok THEN [store EXCEPT !.declared = effect]
                        ELSE store
            /\ Goto(next)
    /\ InputsUnchanged /\ SkeletonsUnchanged /\ SourcesUnchanged
    /\ UNCHANGED <<deploy_id, task, unsettled, acks>>

\* patch_ndo_tmpl_bds(session, dst_bd_tmpl_data, bdRef=bd_ref, oper="add")
AddDstTmplBd ==
    PatchStep("dst_bd_add", "patch_ndo_tmpl_bds", "add", bd_ref, 4, TRUE,
              store.declared
                  \cup {<<"bd", TmplBdPath(bd_ref, ndo_bd_tmpl_dict["name"])>>},
              "dst_bd_site")

\* patch_ndo_site_bds(session, dst_bd_site_data, siteId=site_id,
\*                    oper="replace")
ReplaceDstSiteBd ==
    PatchStep("dst_bd_site", "patch_ndo_site_bds", "replace",
              ndo_bd_site_dict["bdRef"], 4, TRUE,
              store.declared, "dst_deploy1")

\* patch_ndo_tmpl_epgs(session, dst_epg_tmpl_data, epgRef=epg_ref, oper="add")
AddDstTmplEpg ==
    PatchStep("dst_epg_add", "patch_ndo_tmpl_epgs", "add", epg_ref, 6, TRUE,
              store.declared
                  \cup {<<"epg",
                          TmplEpgPath(epg_ref, ndo_epg_tmpl_dict["name"])>>},
              "dst_epg_site")

\* patch_ndo_site_epgs(session, dst_epg_site_data, siteId=site_id,
\*                     oper="replace")
ReplaceDstSiteEpg ==
    PatchStep("dst_epg_site", "patch_ndo_site_epgs", "replace",
              ndo_epg_site_dict["epgRef"], 6, TRUE,
              IF ndo_epg_site_dict["staticPorts"] # << >>
              THEN store.declared
                       \cup {<<"ports", ndo_epg_site_dict["epgRef"]>>}
              ELSE store.declared,
              "src_info")

\* "src_bf_ref = src_bd_site_data['bdRef']",
\* "src_epg_ref = src_epg_site_data['epgRef']"
SrcInfo ==
    /\ pc = "src_info"
    /\ IF "bdRef" \in DOMAIN SrcBdSite /\ "epgRef" \in DOMAIN SrcEpgSite
       THEN Goto("src_ports")
       ELSE Crash("KeyError")
    /\ InputsUnchanged /\ SkeletonsUnchanged /\ SourcesUnchanged
    /\ RemoteUnchanged

\* patch_ndo_epg_static_ports(session, src_epg_site_data, siteId=src_site_id,
\*                            ports=empty_ports, oper="replace")
ReplaceSrcStaticPorts ==
    PatchStep("src_ports", "patch_ndo_epg_static_ports", "replace",
              SrcEpgSite["epgRef"], 6, TRUE,
              store.declared \ {<<"ports", SrcEpgSite["epgRef"]>>},
              "src_deploy1")

\* patch_ndo_tmpl_epgs(session, src_epg_tmpl_data, epgRef=src_epg_ref,
\*                     oper="remove")
RemoveSrcTmplEpg ==
    PatchStep("src_epg_remove", "patch_ndo_tmpl_epgs", "remove",
              SrcEpgSite["epgRef"], 6,
              "name" \in DOMAIN SrcEpgTmpl,
              store.declared
                  \ {<<"epg", TmplEpgPath(SrcEpgSite["epgRef"],
                                          SrcEpgTmpl["name"])>>,
                     <<"ports", TmplEpgPath(SrcEpgSite["epgRef"],
                                            SrcEpgTmpl["name"])>>},
              "src_bd_remove")

\* RemoveSrcTmplBd removing the destination template BD of the unit instead
RemoveDstTmplBd ==
    PatchStep("src_bd_remove", "patch_ndo_tmpl_bds", "remove", bd_ref, 4, TRUE,
              store.declared
                  \ {<<"bd", TmplBdPath(bd_ref, ndo_bd_tmpl_dict["name"])>>},
              "src_deploy2")

\* patch_ndo_tmpl_bds(session, src_bd_tmpl_data, bdRef=src_bf_ref,
\*                    oper="remove")
RemoveSrcTmplBd ==
    PatchStep("src_bd_remove", "patch_ndo_tmpl_bds", "remove",
              SrcBdSite["bdRef"], 4,
              "name" \in DOMAIN SrcBdTmpl,
              store.declared
                  \ {<<"bd", TmplBdPath(SrcBdSite["bdRef"],
                                        SrcBdTmpl["name"])>>},
              "src_deploy2")

\* deploy_ndo_template under request_logger, then "deploy.json()['id']": a
\* failed POST returns None and .json() raises AttributeError (not caught)
DeployStep(step, scope, next) ==
    /\ pc = step
    /\ \E ok \in BOOLEAN :
        /\ ok \/ faults < MaxFaults
        /\ faults' = IF ok THEN faults ELSE faults + 1
        /\ calls' = Append(calls, Entry(step, "deploy", scope,
                                        IF ok THEN "ok" ELSE "fail"))
        /\ IF ok
           THEN /\ deploy_id' = deploy_id + 1
                /\ task' = [id |-> deploy_id + 1, scope |-> scope,
                            status |-> "Pending"]
                /\ unsettled' = unsettled \cup {<<deploy_id + 1, scope>>}
                /\ Goto(next)
           ELSE /\ Crash("AttributeError")
                /\ UNCHANGED <<deploy_id, task, unsettled>>
    /\ InputsUnchanged /\ SkeletonsUnchanged /\ SourcesUnchanged
    /\ UNCHANGED <<store, acks, patch_args>>

DeployDstBd == DeployStep("dst_deploy1", DstScope, "dst_await1")
DeploySrcPorts == DeployStep("src_deploy1", SrcScope, "src_await1")
DeployDstEpg == DeployStep("dst_deploy2", DstScope, "dst_await2")
DeploySrcRemove == DeployStep("src_deploy2", SrcScope, "src_await2")

\* AwaitStep returning after its first poll, whatever the status
AwaitStepOnePoll(step, next) ==
    /\ pc = step
    /\ calls' = Append(calls, Entry(step, "await", task.scope, task.status))
    /\ Goto(next)
    /\ InputsUnchanged /\ SkeletonsUnchanged /\ SourcesUnchanged
    /\ UNCHANGED <<deploy_id, task, store, acks, patch_args, unsettled,
                   faults>>

\* AwaitStep whose loop does not test for status Error
AwaitStepBlindToError(step, next) ==
    /\ pc = step
    /\ \/ /\ faults < MaxFaults
          /\ faults' = faults + 1
          /\ calls' = Append(calls, Entry(step, "await", task.scope,
                                          "PollFailed"))
          /\ Goto(next)
          /\ UNCHANGED unsettled
       \/ /\ task.status = "Complete"
          /\ calls' = Append(calls, Entry(step, "await", task.scope,
                                          "Complete"))
          /\ unsettled' = unsettled \ {<<task.id, task.scope>>}
          /\ Goto(next)
          /\ UNCHANGED faults
       \/ /\ task.status \in {"Pending", "InProgress", "Error"}
          /\ UNCHANGED <<calls, unsettled, faults, pc, exc, i, warnings>>
    /\ InputsUnchanged /\ SkeletonsUnchanged /\ SourcesUnchanged
    /\ UNCHANGED <<deploy_id, task, store, acks, patch_args>>

\* ndo_deploy_status_check under request_logger: one pass of the while loop.
\* A failed GET and the RequestException raised on status Error are both
\* swallowed by the decorator, which returns None to main; an Error answer
\* with an empty execSiteStatus list raises IndexError instead.
AwaitStep(step, next) ==
    /\ pc = step
    /\ \/ /\ faults < MaxFaults
          /\ faults' = faults + 1
          /\ calls' = Append(calls, Entry(step, "await", task.scope,
                                          "PollFailed"))
          /\ Goto(next)
          /\ UNCHANGED unsettled
       \/ /\ task.status = "Complete"
          /\ calls' = Append(calls, Entry(step, "await", task.scope,
                                          "Complete"))
          /\ unsettled' = unsettled \ {<<task.id, task.scope>>}
          /\ Goto(next)
          /\ UNCHANGED faults
       \/ /\ task.status = "Error"
          /\ calls' = Append(calls, Entry(step, "await", task.scope, "Error"))
          /\ unsettled' = unsettled \ {<<task.id, task.scope>>}
          /\ \E hasMsg \in BOOLEAN : IF hasMsg THEN Goto(next) ELSE SkipUnit
          /\ UNCHANGED faults
       \/ /\ task.status \in {"Pending", "InProgress"}
          /\ UNCHANGED <<calls, unsettled, faults, pc, exc, i, warnings>>
    /\ InputsUnchanged /\ SkeletonsUnchanged /\ SourcesUnchanged
    /\ UNCHANGED <<deploy_id, task, store, acks, patch_args>>

\* AwaitSrcPorts continuing at the EPG removal: no grace wait, no activation
AwaitSrcPortsThenRemove == AwaitStep("src_await1", "src_epg_remove")

\* AwaitDstEpg continuing at the BD removal: the EPG removal is left out
AwaitDstEpgThenBdRemove == AwaitStep("dst_await2", "src_bd_remove")

AwaitDstBd == AwaitStep("dst_await1", "dst_epg_add")
AwaitSrcPorts == AwaitStep("src_await1", "grace")
AwaitDstEpg == AwaitStep("dst_await2", "src_epg_remove")
AwaitSrcRemove == AwaitStep("src_await2", "confirm")

\* the remote controller runs the task created by the last deploy
TaskProgress ==
    /\ pc \notin {"done", "crashed"}
    /\ \/ /\ task.status = "Pending"
          /\ task' = [task EXCEPT !.status = "InProgress"]
          /\ UNCHANGED <<store, faults>>
       \/ /\ task.status = "InProgress"
          /\ task' = [task EXCEPT !.status = "Complete"]
          /\ store' = Deployed(store, task.scope)
          /\ UNCHANGED faults
       \/ /\ task.status = "InProgress"
          /\ faults < MaxFaults
          /\ faults' = faults + 1
          /\ task' = [task EXCEPT !.status = "Error"]
          /\ UNCHANGED store
    /\ InputsUnchanged /\ SkeletonsUnchanged /\ SourcesUnchanged
    /\ UNCHANGED <<pc, exc, i, warnings, deploy_id, unsettled, calls, acks,
                   patch_args>>

\* the 2 s grace loop
Grace ==
    /\ pc = "grace"
    /\ Goto("dst_deploy2")
    /\ InputsUnchanged /\ SkeletonsUnchanged /\ SourcesUnchanged
    /\ RemoteUnchanged

\* Confirm prompting after every unit, the last one included
ConfirmAlwaysAsks ==
    /\ pc = "confirm"
    /\ Goto("input")
    /\ InputsUnchanged /\ SkeletonsUnchanged /\ SourcesUnchanged
    /\ RemoteUnchanged

\* the completion log line and "if i < (items - 1): input(...)"
Confirm ==
    /\ pc = "confirm"
    /\ IF i < items - 1
       THEN Goto("input")
       ELSE pc' = "loop" /\ i' = i + 1 /\ UNCHANGED <<exc, warnings>>
    /\ InputsUnchanged /\ SkeletonsUnchanged /\ SourcesUnchanged
    /\ RemoteUnchanged

\* the operator presses enter
OperatorAck ==
    /\ pc = "input"
    /\ acks' = Append(acks, i)
    /\ pc' = "loop" /\ i' = i + 1 /\ UNCHANGED <<exc, warnings>>
    /\ InputsUnchanged /\ SkeletonsUnchanged /\ SourcesUnchanged
    /\ UNCHANGED <<deploy_id, task, store, unsettled, calls, faults,
                   patch_args>>

Next ==
    \/ Login \/ GetSchemas \/ Validate \/ Loop \/ Resolve \/ Map
    \/ AddDstTmplBd \/ ReplaceDstSiteBd \/ DeployDstBd \/ AwaitDstBd
    \/ AddDstTmplEpg \/ ReplaceDstSiteEpg \/ SrcInfo
    \/ ReplaceSrcStaticPorts \/ DeploySrcPorts \/ AwaitSrcPorts
    \/ Grace \/ DeployDstEpg \/ AwaitDstEpg
    \/ RemoveSrcTmplEpg \/ RemoveSrcTmplBd \/ DeploySrcRemove
    \/ AwaitSrcRemove \/ Confirm \/ OperatorAck \/ TaskProgress

Spec == Init /\ [][Next]_vars

(* ---- runs of resolvable units, with the scheduling of main -------------- *)
\* the steps of main and of the functions it calls (the controller's task and
\* the operator are not under the program's control)
ProgramStep ==
    \/ Login \/ GetSchemas \/ Validate \/ Loop \/ Resolve \/ Map
    \/ AddDstTmplBd \/ ReplaceDstSiteBd \/ DeployDstBd \/ AwaitDstBd
    \/ AddDstTmplEpg \/ ReplaceDstSiteEpg \/ SrcInfo
    \/ ReplaceSrcStaticPorts \/ DeploySrcPorts \/ AwaitSrcPorts
    \/ Grace \/ DeployDstEpg \/ AwaitDstEpg
    \/ RemoveSrcTmplEpg \/ RemoveSrcTmplBd \/ DeploySrcRemove
    \/ AwaitSrcRemove \/ Confirm

\* sheets of equal length whose source rows all resolve
LiveInit ==
    /\ Init
    /\ Len(src_epgs) = Len(dst_epgs)
    /\ \A k \in DOMAIN src_epgs :
           src_epgs[k] \in { SrcRow("s1", "t1", "site1", "EPG1", 0),
                             SrcRow("s1", "t1", "site1", "EPG2", 1) }

\* main is a sequential program that runs whenever it can take a step
LiveSpec == LiveInit /\ [][Next]_vars /\ WF_vars(ProgramStep)

(* ---- the patch functions called with any operation ---------------------- *)
\* number of reference segments a function reads: schema and template, and
\* for the EPG functions the application profile
NeedSeg(fn) ==
    IF fn \in {"patch_ndo_tmpl_bds", "patch_ndo_site_bds"} THEN 4 ELSE 6

\* references passed by the caller: a BD path, an EPG path, an empty string
PatchRefs ==
    { DstBdRef(DstRowAt(1)), DstEpgRef(DstRowAt(1), "EPGN"), <<"">> }

\* what an accepted PATCH of the template functions declares on the store
PatchEffect(fn, oper, ref) ==
    LET kind == IF fn = "patch_ndo_tmpl_bds" THEN "bd" ELSE "epg" IN
    IF fn \notin {"patch_ndo_tmpl_bds", "patch_ndo_tmpl_epgs"}
    THEN store.declared
    ELSE IF oper = "add" THEN store.declared \cup {<<kind, ref>>}
    ELSE store.declared \ {<<kind, ref>>}

\* a caller holding a session, before its first patch call
PatchInit ==
    /\ pc = "call"
    /\ exc = ""
    /\ src_epgs = << >>
    /\ dst_epgs = << >>
    /\ session = "Session"
    /\ ndo_schemas = "Response"
    /\ ndo_schemas_json = SchemaTree
    /\ i = 0
    /\ src_bd_tmpl_data = Empty
    /\ src_epg_tmpl_data = Empty
    /\ src_bd_site_data = Empty
    /\ src_epg_site_data = Empty
    /\ ndo_bd_tmpl_dict = BdTmplSkeleton
    /\ ndo_bd_site_dict = BdSiteSkeleton
    /\ ndo_epg_tmpl_dict = EpgTmplSkeleton
    /\ ndo_epg_site_dict = EpgSiteSkeleton
    /\ deploy_id = 0
    /\ task = [id |-> 0, scope |-> <<"", "">>, status |-> "None"]
    /\ store = [declared |-> StoreFacts(SchemaTree),
                deployed |-> StoreFacts(SchemaTree)]
    /\ unsettled = {}
    /\ calls = << >>
    /\ warnings = << >>
    /\ acks = << >>
    /\ patch_args = NoArgs
    /\ faults = 0

\* one call of a patch function with a complete data object
CallPatch ==
    /\ Len(calls) < MaxCalls
    /\ \E fn \in PatchFns, oper \in Opers, ref \in PatchRefs :
           PatchStep("call", fn, oper, ref, NeedSeg(fn), TRUE,
                     PatchEffect(fn, oper, ref), "call")

PatchNext == CallPatch

PatchSpec == PatchInit /\ [][PatchNext]_vars

(* ---- the mapping of one unit over varied source BDs --------------------- *)
\* subnet addresses, subnet lists and destination BD names of the sheet
SubnetIps == {"10.14.1.1/24", "10.17.2.1/24", "10.20.3.1/24"}
SubnetLists ==
    { [k \in DOMAIN q |-> [ip |-> q[k]]] : q \in SeqsUpTo(SubnetIps, MaxSubnets) }
DstBdNames == {"WB-BD1", "YK-BD2", "TN2-BD1"}

\* the schema tree with BD1 as the store may return it
TreeWith(stretch, tnets, snets, hbr) ==
    [SchemaTree EXCEPT
        !.schemas[1].templates[1].bds[1] =
            [@ EXCEPT !.l2Stretch = stretch, !.subnets = tnets],
        !.schemas[1].sites[1].bds[1] =
            [@ EXCEPT !.subnets = snets, !.hostBasedRouting = hbr]]
MapTrees ==
    { TreeWith(stretch, tnets, snets, hbr) :
          stretch \in {"True", "False"}, tnets \in SubnetLists,
          snets \in SubnetLists, hbr \in {"True", "False"} }

\* a successful call made before the loop
Bootstrapped(step, kind) ==
    [u |-> 0, step |-> step, kind |-> kind, scope |-> <<"", "">>,
     res |-> "ok", busy |-> FALSE, portsLive |-> FALSE]

\* main at the first iteration of the loop: one unit (source EPG1 on BD1),
\* logged in, schemas read, lengths equal
MapInit ==
    /\ pc = "resolve"
    /\ exc = ""
    /\ src_epgs = << SrcRow("s1", "t1", "site1", "EPG1", 0) >>
    /\ dst_epgs \in
           { << DstRow(bd, "EPGN", <<"", "schemas", "s2", "templates", "T2",
                                     "anps", "AP2">>) >> : bd \in DstBdNames }
    /\ session = "Session"
    /\ ndo_schemas = "Response"
    /\ ndo_schemas_json \in MapTrees
    /\ i = 0
    /\ src_bd_tmpl_data = Empty
    /\ src_epg_tmpl_data = Empty
    /\ src_bd_site_data = Empty
    /\ src_epg_site_data = Empty
    /\ ndo_bd_tmpl_dict = BdTmplSkeleton
    /\ ndo_bd_site_dict = BdSiteSkeleton
    /\ ndo_epg_tmpl_dict = EpgTmplSkeleton
    /\ ndo_epg_site_dict = EpgSiteSkeleton
    /\ deploy_id = 0
    /\ task = [id |-> 0, scope |-> <<"", "">>, status |-> "None"]
    /\ store = [declared |-> StoreFacts(SchemaTree),
                deployed |-> StoreFacts(SchemaTree)]
    /\ unsettled = {}
    /\ calls = << Bootstrapped("login", "login"),
                  Bootstrapped("get_schemas", "read") >>
    /\ warnings = << >>
    /\ acks = << >>
    /\ patch_args = NoArgs
    /\ faults = 0

\* lookup and payload construction of the unit
MapNext == Resolve \/ Map

MapSpec == MapInit /\ [][MapNext]_vars

(* ---- sheets whose references name another template ---------------------- *)
\* source rows that resolve: one whose templName is the template's name, one
\* whose templName column names another template than templId selects
ScopeSrcRows ==
    { SrcRow("s1", "t1", "site1", "EPG1", 0),
      [SrcRow("s1", "t1", "site1", "EPG2", 1) EXCEPT !.templName = "T1-old"] }

\* destination row k with the application profile of its own template, or
\* with an application profile of template T3
ScopeDstRows(k) ==
    { DstRowAt(k),
      [DstRowAt(k) EXCEPT !.anpRef = <<"", "schemas", "s2", "templates", "T3",
                                       "anps", "AP3">>] }

\* the sheets have been read with as many destination rows as source rows
ScopeInit ==
    /\ pc = "login"
    /\ exc = ""
    /\ src_epgs \in { q \in SeqsUpTo(ScopeSrcRows, MaxUnits) :
                         NoRepeat(q) /\ Len(q) > 0 }
    /\ dst_epgs \in UNION { [1..n -> UNION { ScopeDstRows(k) : k \in 1..n }] :
                                n \in 1..MaxUnits }
    /\ Len(dst_epgs) = Len(src_epgs)
    /\ \A k \in DOMAIN dst_epgs : dst_epgs[k] \in ScopeDstRows(k)
    /\ session = "None"
    /\ ndo_schemas = "None"
    /\ ndo_schemas_json = EmptyTree
    /\ i = 0
    /\ src_bd_tmpl_data = Empty
    /\ src_epg_tmpl_data = Empty
    /\ src_bd_site_data = Empty
    /\ src_epg_site_data = Empty
    /\ ndo_bd_tmpl_dict = BdTmplSkeleton
    /\ ndo_bd_site_dict = BdSiteSkeleton
    /\ ndo_epg_tmpl_dict = EpgTmplSkeleton
    /\ ndo_epg_site_dict = EpgSiteSkeleton
    /\ deploy_id = 0
    /\ task = [id |-> 0, scope |-> <<"", "">>, status |-> "None"]
    /\ store = [declared |-> StoreFacts(SchemaTree),
                deployed |-> StoreFacts(SchemaTree)]
    /\ unsettled = {}
    /\ calls = << >>
    /\ warnings = << >>
    /\ acks = << >>
    /\ patch_args = NoArgs
    /\ faults = 0

ScopeSpec == ScopeInit /\ [][Next]_vars

(* ======================================================================== *)
(* Properties                                                               *)
(* ======================================================================== *)
\* the run is inside (or past) the for loop: login, schema read and the
\* length check all succeeded
InLoop ==
    /\ pc \notin {"login", "get_schemas", "validate"}
    /\ ~(pc = "crashed" /\ (ndo_schemas = "None" \/ exc = "SystemExit"))

Mutating(e) == e.kind \in {"patch", "deploy"}

\* the history holds, before position k, the call `step` with result `res`
Earlier(k, step, res) ==
    \E j \in 1..(k - 1) : calls[j].step = step /\ calls[j].res = res

\* some index of the row is past the end of a list of a matching template or
\* site of the tree
IndexBad(tree, row) ==
    \E s \in DOMAIN tree.schemas :
        /\ tree.schemas[s].id = row.schemaId
        /\ \/ \E t \in DOMAIN tree.schemas[s].templates :
                LET tm == tree.schemas[s].templates[t] IN
                /\ tm.templateID = row.templId
                /\ \/ row.bdTemplId >= Len(tm.bds)
                   \/ row.anpTemplId >= Len(tm.anps)
                   \/ row.epgTemplId >= Len(tm.anps[row.anpTemplId + 1].epgs)
           \/ \E k \in DOMAIN tree.schemas[s].sites :
                LET st == tree.schemas[s].sites[k] IN
                /\ st.siteId = row.siteId
                /\ \/ row.bdSiteId >= Len(st.bds)
                   \/ row.anpSiteId >= Len(st.anps)
                   \/ row.epgSiteId >= Len(st.anps[row.anpSiteId + 1].epgs)

\* no schema, or no template, or no site of the tree matches the row
MissingEntry(tree, row) ==
    ~ \E s \in DOMAIN tree.schemas :
        /\ tree.schemas[s].id = row.schemaId
        /\ \E t \in DOMAIN tree.schemas[s].templates :
               tree.schemas[s].templates[t].templateID = row.templId
        /\ \E k \in DOMAIN tree.schemas[s].sites :
               tree.schemas[s].sites[k].siteId = row.siteId

\* C1: within a unit, the remove patches for the source template EPG and the
\* source template BD are issued only if the activation deployment (second
\* deploy of the destination template) was awaited to status Complete.
C1_RemoveOnlyAfterActivationComplete ==
    \A k \in DOMAIN calls :
        calls[k].step \in {"src_epg_remove", "src_bd_remove"}
            => Earlier(k, "dst_await2", "Complete")

\* C2: when the source and destination lists differ in length the run issues
\* no patch and no deploy (only the login and the schema read), never enters
\* the loop and leaves the store as it was.
C2_NoMutationOnLengthMismatch ==
    Len(src_epgs) # Len(dst_epgs) =>
        /\ \A k \in DOMAIN calls : IsBootstrap(calls[k])
        /\ pc \in {"login", "get_schemas", "validate", "crashed"}
        /\ deploy_id = 0
        /\ store.declared = StoreFacts(SchemaTree)

\* C2 witness: a run with lists of different lengths has logged in, read the
\* schemas and ended at the length check.
C2_Witness ==
    /\ Len(src_epgs) # Len(dst_epgs)
    /\ pc = "crashed" /\ exc = "SystemExit"
    /\ Len(calls) = 2

\* C3: once an awaited deployment task reports status Error, no further remote
\* call is issued for that unit: the Error observation is the last entry of
\* the unit's history.
C3_NoCallAfterTaskError ==
    \A k \in DOMAIN calls :
        (calls[k].kind = "await" /\ calls[k].res = "Error") => k = Len(calls)

\* C4: the add patch for the destination template EPG is issued only after the
\* task of the first destination deploy was observed with status Complete.
C4_EpgAddOnlyAfterBdDeployComplete ==
    \A k \in DOMAIN calls :
        calls[k].step = "dst_epg_add" => Earlier(k, "dst_await1", "Complete")

\* C5: after a patch call of a unit received a non-2xx response, no later
\* patch or deploy is issued for that unit.
C5_NoCallAfterFailedPatch ==
    \A k \in DOMAIN calls :
        (calls[k].kind = "patch" /\ calls[k].res = "fail")
            => \A j \in (k + 1)..Len(calls) : ~Mutating(calls[j])

\* C6: a failure raised inside unit i's phases aborts unit i only: the run
\* never ends inside the loop while units remain after the current one.
C6_FailureAbortsUnitOnly ==
    ~(InLoop /\ pc = "crashed" /\ i + 1 < items)

\* C7: a unit with an index out of range in the matching template or site
\* issues no patch and no deploy, is logged with a warning, and the loop moves
\* on to the next unit.
C7_IndexOutOfRangeSkipsUnit ==
    InLoop =>
        \A u \in 0..(items - 1) :
            IndexBad(ndo_schemas_json, src_epgs[u + 1]) =>
                /\ u < i => \E w \in DOMAIN warnings : warnings[w] = u
                /\ u = i => pc \in {"loop", "resolve"}
                /\ (u = i /\ pc = "resolve")
                       => \A k \in DOMAIN calls : IsBootstrap(calls[k])

\* C7 witness: the first unit had an index out of range, was skipped with a
\* warning, and the second unit is being mapped.
C7_Witness ==
    /\ InLoop /\ items = 2
    /\ IndexBad(ndo_schemas_json, src_epgs[1])
    /\ warnings = <<0>>
    /\ i = 1 /\ pc = "map"
    /\ \A k \in DOMAIN calls : IsBootstrap(calls[k])

\* C8: a unit whose schemaId, templId or siteId matches no entry of the tree
\* is skipped with no remote mutation and the run continues; a unit that
\* reaches the Map phase has resolved its four source objects from its own row.
C8_MissingEntrySkipsUnit ==
    (InLoop /\ i < items /\ MissingEntry(ndo_schemas_json, Src)) =>
        /\ pc \in {"loop", "resolve"}
        /\ pc = "resolve" => \A k \in DOMAIN calls : IsBootstrap(calls[k])

\* C9: no deploy or patch is issued against a (schema, template) scope while a
\* deployment task created earlier on that scope has not been observed in a
\* terminal state.
C9_NoCallOnBusyScope ==
    \A k \in DOMAIN calls : Mutating(calls[k]) => ~calls[k].busy

\* C10: the activation deploy is issued only when the source site EPG's static
\* ports are no longer deployed, after the static-ports replace succeeded and
\* the source deploy that follows it reached Complete.
C10_ActivationOnlyAfterPortsDetached ==
    \A k \in DOMAIN calls :
        calls[k].step = "dst_deploy2" =>
            /\ ~calls[k].portsLive
            /\ Earlier(k, "src_ports", "ok")
            /\ Earlier(k, "src_await1", "Complete")

\* the history holds, before position k, the call `step` of the same unit
IssuedBefore(k, step) ==
    \E j \in 1..(k - 1) : calls[j].step = step /\ calls[j].u = calls[k].u

\* C11: in every unit the remove patch of the source template BD is issued
\* only after the remove patch of the source template EPG of that unit, and
\* both are issued before the final source deploy, never after it.
C11_EpgRemovedBeforeBd ==
    \A k \in DOMAIN calls :
        /\ calls[k].step = "src_bd_remove" => IssuedBefore(k, "src_epg_remove")
        /\ calls[k].step = "src_deploy2" =>
               /\ IssuedBefore(k, "src_epg_remove")
               /\ IssuedBefore(k, "src_bd_remove")
        /\ calls[k].step \in {"src_epg_remove", "src_bd_remove"} =>
               ~IssuedBefore(k, "src_deploy2")

\* C11 witness: a unit issued the EPG removal, then the BD removal, then the
\* final source deploy.
C11_Witness ==
    /\ pc = "src_await2"
    /\ Len(calls) >= 3
    /\ calls[Len(calls) - 2].step = "src_epg_remove"
    /\ calls[Len(calls) - 1].step = "src_bd_remove"
    /\ calls[Len(calls)].step = "src_deploy2"

\* the payloads of unit i are built: main is between the first patch of the
\* unit and the prompt that ends it
Mapped ==
    pc \in {"dst_bd_add", "dst_bd_site", "dst_deploy1", "dst_await1",
            "dst_epg_add", "dst_epg_site", "src_info", "src_ports",
            "src_deploy1", "src_await1", "grace", "dst_deploy2",
            "dst_await2", "src_epg_remove", "src_bd_remove", "src_deploy2",
            "src_await2", "confirm", "input"}

\* the call just issued is `step`, and the store accepted it
JustSent(step) ==
    /\ calls # << >>
    /\ calls[Len(calls)].step = step
    /\ calls[Len(calls)].res = "ok"

\* the source template BD of the unit has l2Stretch = v
SrcStretch(v) ==
    /\ "l2Stretch" \in DOMAIN SrcBdTmpl
    /\ SrcBdTmpl["l2Stretch"] = v

C14_ConsumerContractInEpgPayload ==
    (pc = "dst_epg_site" /\ calls # << >>
        /\ calls[Len(calls)].step = "dst_epg_add") =>
        \E r \in DOMAIN ndo_epg_tmpl_dict["contractRelationships"] :
            ndo_epg_tmpl_dict["contractRelationships"][r]
                = [contractRef |-> Dst.consContract,
                   relationshipType |-> "consumer"]

\* C15: the destination template EPG payload has the bdRef of the destination
\* site BD payload of the unit (the path of the new BD), name and displayName
\* of the destination row, preferredGroup true, and the source template EPG's
\* value in every other skeleton field.
C15_EpgPayloadOverrides ==
    Mapped =>
        /\ ndo_epg_tmpl_dict["bdRef"] = ndo_bd_site_dict["bdRef"]
        /\ ndo_epg_tmpl_dict["bdRef"]
               = <<"", "schemas", Dst.schemaId, "templates", Dst.templName,
                   "bds", Dst.bdName>>
        /\ ndo_epg_tmpl_dict["name"] = Dst.epgName
        /\ ndo_epg_tmpl_dict["displayName"] = Dst.epgName
        /\ ndo_epg_tmpl_dict["preferredGroup"] = "True"
        /\ DOMAIN ndo_epg_tmpl_dict = DOMAIN EpgTmplSkeleton
        /\ \A key \in (DOMAIN EpgTmplSkeleton)
                       \ {"bdRef", "name", "displayName", "preferredGroup"} :
               ndo_epg_tmpl_dict[key] = SrcEpgTmpl[key]

\* C15 witness: the destination template EPG was added after the site BD
\* patch of the unit, for a source EPG that differs from the payload in bdRef,
\* name and preferredGroup.
C15_Witness ==
    /\ pc = "dst_epg_site" /\ JustSent("dst_epg_add")
    /\ IssuedBefore(Len(calls), "dst_bd_site")
    /\ SrcEpgTmpl["bdRef"] # ndo_epg_tmpl_dict["bdRef"]
    /\ SrcEpgTmpl["name"] # ndo_epg_tmpl_dict["name"]
    /\ SrcEpgTmpl["preferredGroup"] = "False"
    /\ ndo_epg_tmpl_dict["epgType"] = "application"

\* C16: the destination site BD payload has l3Outs = [bdL3Out1, bdL3Out2] and
\* l3OutRefs = [bdL3OutRef1, bdL3OutRef2] of the destination row, whatever the
\* source site BD holds.
C16_L3OutsFromDestinationRow ==
    Mapped =>
        /\ ndo_bd_site_dict["l3Outs"] = <<Dst.bdL3Out1, Dst.bdL3Out2>>
        /\ ndo_bd_site_dict["l3OutRefs"] = <<Dst.bdL3OutRef1, Dst.bdL3OutRef2>>

\* C16 witness: the destination site BD was patched for a source site BD with
\* other l3Outs and l3OutRefs.
C16_Witness ==
    /\ pc = "dst_deploy1" /\ JustSent("dst_bd_site")
    /\ SrcBdSite["l3Outs"] # ndo_bd_site_dict["l3Outs"]
    /\ SrcBdSite["l3OutRefs"] # ndo_bd_site_dict["l3OutRefs"]
    /\ Len(ndo_bd_site_dict["l3Outs"]) = 2

\* C17: the destination template BD payload has name = displayName = the BD
\* name and vrfRef = the VRF reference of the destination row, and the
\* destination site BD payload's bdRef is
\* /schemas/<schemaId>/templates/<template name>/bds/<BD name> of that row.
C17_BdNamesFromDestinationRow ==
    Mapped =>
        /\ ndo_bd_tmpl_dict["name"] = Dst.bdName
        /\ ndo_bd_tmpl_dict["displayName"] = Dst.bdName
        /\ ndo_bd_tmpl_dict["vrfRef"] = Dst.vrfRef
        /\ ndo_bd_site_dict["bdRef"]
               = <<"", "schemas", Dst.schemaId, "templates", Dst.templName,
                   "bds", Dst.bdName>>

\* C17 witness: both destination BD patches of a unit were sent, for a source
\* BD with another name and VRF.
C17_Witness ==
    /\ pc = "dst_deploy1" /\ JustSent("dst_bd_site")
    /\ IssuedBefore(Len(calls), "dst_bd_add")
    /\ SrcBdTmpl["name"] # ndo_bd_tmpl_dict["name"]
    /\ SrcBdTmpl["vrfRef"] # ndo_bd_tmpl_dict["vrfRef"]
    /\ SrcBdSite["bdRef"] # ndo_bd_site_dict["bdRef"]

\* C18: the destination site EPG payload equals the source site EPG of the
\* schema snapshot on every skeleton field (staticPorts included, also after
\* the source ports were emptied on the store) except epgRef, which is the
\* destination row's anpRef followed by /epgs/<destination EPG name>.
C18_SiteEpgPayloadFromSource ==
    Mapped =>
        /\ DOMAIN ndo_epg_site_dict = DOMAIN EpgSiteSkeleton
        /\ \A key \in (DOMAIN EpgSiteSkeleton) \ {"epgRef"} :
               ndo_epg_site_dict[key] = SrcEpgSite[key]
        /\ ndo_epg_site_dict["epgRef"] = Dst.anpRef \o <<"epgs", Dst.epgName>>

\* C18 witness: the destination site EPG was patched with the static ports of
\* the source, and the source ports have since been emptied on the store.
C18_Witness ==
    /\ pc = "src_deploy1" /\ JustSent("src_ports")
    /\ IssuedBefore(Len(calls), "dst_epg_site")
    /\ ndo_epg_site_dict["staticPorts"] # << >>
    /\ <<"ports", SrcEpgSite["epgRef"]>> \notin store.declared
    /\ SrcEpgSite["epgRef"] # ndo_epg_site_dict["epgRef"]

\* the payloads a second run of the mapping builds from the source objects
\* and the destination row of the unit
MappedAgain ==
    LET b == MapBd(SrcBdTmpl, SrcBdSite, ndo_bd_tmpl_dict, ndo_bd_site_dict,
                   Dst)
        e == MapEpg(SrcEpgTmpl, SrcEpgSite, ndo_epg_tmpl_dict,
                    ndo_epg_site_dict, b.bdS["bdRef"], Dst)
    IN  [err |-> b.err \/ e.err, bdT |-> b.bdT, bdS |-> b.bdS,
         epgT |-> e.epgT, epgS |-> e.epgS]

\* mapping the unit again yields the payloads it has
MapIdempotent ==
    Mapped =>
        /\ ~MappedAgain.err
        /\ MappedAgain.bdT = ndo_bd_tmpl_dict
        /\ MappedAgain.bdS = ndo_bd_site_dict
        /\ MappedAgain.epgT = ndo_epg_tmpl_dict
        /\ MappedAgain.epgS = ndo_epg_site_dict

\* C19: mapping the same source objects and destination row twice yields
\* identical payloads, and mapping leaves the source objects of the schema
\* snapshot as they were read: no key added, removed or modified, also for a
\* source template BD without vmac.
C19_MapIdempotentAndPure ==
    /\ MapIdempotent
    /\ ndo_schemas = "Response" => ndo_schemas_json = SchemaTree

\* the payloads of a unit processed first: lookup from the empty source
\* objects in the snapshot as read, mapping from the default skeletons
MappedFirst(row, dst) ==
    LET st == ResolveSchemas(SchemaTree, 1, row,
                  [bdT |-> Empty, epgT |-> Empty, bdS |-> Empty,
                   epgS |-> Empty, err |-> FALSE])
        b == MapBd(Deref(SchemaTree, st.bdT), Deref(SchemaTree, st.bdS),
                   BdTmplSkeleton, BdSiteSkeleton, dst)
        e == MapEpg(Deref(SchemaTree, st.epgT), Deref(SchemaTree, st.epgS),
                    EpgTmplSkeleton, EpgSiteSkeleton, b.bdS["bdRef"], dst)
    IN  [err |-> st.err \/ b.err \/ e.err, bdT |-> b.bdT, bdS |-> b.bdS,
         epgT |-> e.epgT, epgS |-> e.epgS]

\* C20: the four payloads built for unit i are those the unit yields when it
\* is processed first, whatever units were processed before it.
C20_PayloadsOfOwnUnitOnly ==
    Mapped =>
        /\ ~MappedFirst(Src, Dst).err
        /\ MappedFirst(Src, Dst).bdT = ndo_bd_tmpl_dict
        /\ MappedFirst(Src, Dst).bdS = ndo_bd_site_dict
        /\ MappedFirst(Src, Dst).epgT = ndo_epg_tmpl_dict
        /\ MappedFirst(Src, Dst).epgS = ndo_epg_site_dict

\* the rule of the two recognised prefixes, on the addresses and names of
\* the sheet
HbrRule(ip, bdName) ==
    \/ ip = "10.14.1.1/24" /\ bdName = "WB-BD1"
    \/ ip = "10.17.2.1/24" /\ bdName = "YK-BD2"

\* C21: for a destination BD with exactly one subnet, hostBasedRouting of the
\* destination site BD is true if and only if the subnet starts with 10.14
\* and the BD name with WB, or the subnet starts with 10.17 and the BD name
\* with YK; otherwise it is false.
C21_HostBasedRoutingOneSubnet ==
    (Mapped /\ Len(ndo_bd_tmpl_dict["subnets"]) = 1) =>
        ndo_bd_site_dict["hostBasedRouting"]
            = IF HbrRule(ndo_bd_tmpl_dict["subnets"][1].ip, Dst.bdName)
              THEN "True" ELSE "False"

\* C21 witness: a 10.20 subnet on a WB bridge domain was mapped to false
\* although the source site BD had hostBasedRouting true.
C21_Witness ==
    /\ pc = "dst_bd_add"
    /\ ndo_bd_tmpl_dict["subnets"] = << [ip |-> "10.20.3.1/24"] >>
    /\ Dst.bdName = "WB-BD1"
    /\ SrcBdSite["hostBasedRouting"] = "True"
    /\ ndo_bd_site_dict["hostBasedRouting"] = "False"

\* C30: with several subnets hostBasedRouting is decided by the last subnet
\* of the destination template BD alone, and with no subnet it keeps the
\* value of the source site BD.
C30_LastSubnetDecides ==
    Mapped =>
        LET nets == ndo_bd_tmpl_dict["subnets"] IN
        ndo_bd_site_dict["hostBasedRouting"]
            = IF nets = << >> THEN SrcBdSite["hostBasedRouting"]
              ELSE IF HbrRule(nets[Len(nets)].ip, Dst.bdName)
              THEN "True" ELSE "False"

\* C30 witness: two subnets were mapped, the first matching the rule and the
\* last not, and hostBasedRouting is false.
C30_Witness ==
    /\ pc = "dst_bd_add"
    /\ Len(ndo_bd_tmpl_dict["subnets"]) = 2
    /\ HbrRule(ndo_bd_tmpl_dict["subnets"][1].ip, Dst.bdName)
    /\ ~HbrRule(ndo_bd_tmpl_dict["subnets"][2].ip, Dst.bdName)
    /\ ndo_bd_site_dict["hostBasedRouting"] = "False"

\* the login request of the run failed
LoginFailed ==
    /\ calls # << >>
    /\ calls[1].step = "login"
    /\ calls[1].res = "fail"

\* C22: when the login request fails, the run ends without processing any
\* unit and without any patch or deploy call: the login is the only call made
\* and the store is as it was.
C22_LoginFailureEndsRun ==
    LoginFailed =>
        /\ pc \in {"get_schemas", "crashed"}
        /\ Len(calls) = 1
        /\ i = 0 /\ warnings = << >> /\ acks = << >>
        /\ deploy_id = 0
        /\ store.declared = StoreFacts(SchemaTree)

\* C22 witness: the login failed and the run has ended, with units to process.
C22_Witness ==
    /\ LoginFailed
    /\ pc = "crashed" /\ exc = "AttributeError"
    /\ items > 0 /\ Len(dst_epgs) = items

\* the calls of the current unit, and their steps
InUnit(e) == ~IsBootstrap(e)
UnitCalls == SelectSeq(calls, InUnit)
UnitSteps == [k \in DOMAIN UnitCalls |-> UnitCalls[k].step]

\* every call of the unit so far succeeded and every awaited task completed
AllFine == \A k \in DOMAIN UnitCalls : UnitCalls[k].res \in {"ok", "Complete"}

\* the calls of a unit in which nothing fails
SunnySteps ==
    << "dst_bd_add", "dst_bd_site", "dst_deploy1", "dst_await1",
       "dst_epg_add", "dst_epg_site", "src_ports", "src_deploy1",
       "src_await1", "dst_deploy2", "dst_await2", "src_epg_remove",
       "src_bd_remove", "src_deploy2", "src_await2" >>

\* C23: in a unit where every call succeeds and every task completes, the
\* calls are exactly, each once and in this order: add destination template
\* BD, replace destination site BD, deploy destination (awaited), add
\* destination template EPG, replace destination site EPG, replace source
\* static ports, deploy source (awaited), grace delay, deploy destination
\* (awaited), remove source template EPG, remove source template BD, deploy
\* source (awaited).
C23_SunnyDaySequence ==
    AllFine =>
        /\ Len(UnitSteps) <= Len(SunnySteps)
        /\ UnitSteps = SubSeq(SunnySteps, 1, Len(UnitSteps))
        /\ pc \in {"grace", "dst_deploy2"} => Len(UnitSteps) = 9
        /\ pc \in {"confirm", "input"} => UnitSteps = SunnySteps

\* C23 witness: a unit ran to its end with every call successful.
C23_Witness ==
    /\ pc = "confirm"
    /\ AllFine
    /\ UnitSteps = SunnySteps

\* the four source objects are resolved and one of them lacks a key of its
\* skeleton
MissingField ==
    /\ src_bd_tmpl_data # Empty /\ src_bd_site_data # Empty
    /\ src_epg_tmpl_data # Empty /\ src_epg_site_data # Empty
    /\ \/ ~CanCopy(BdTmplSkeleton, SrcBdTmpl)
       \/ ~CanCopy(BdSiteSkeleton, SrcBdSite)
       \/ ~CanCopy(EpgTmplSkeleton, SrcEpgTmpl)
       \/ ~CanCopy(EpgSiteSkeleton, SrcEpgSite)

\* C24: each destination payload has exactly the keys of its skeleton, and a
\* skeleton key absent from the source object does not abort the unit or the
\* run: the unit goes on to the create phases.
C24_MissingFieldKeepsDefault ==
    /\ Mapped =>
           /\ DOMAIN ndo_bd_tmpl_dict = DOMAIN BdTmplSkeleton
           /\ DOMAIN ndo_bd_site_dict = DOMAIN BdSiteSkeleton
           /\ DOMAIN ndo_epg_tmpl_dict = DOMAIN EpgTmplSkeleton
           /\ DOMAIN ndo_epg_site_dict = DOMAIN EpgSiteSkeleton
    /\ MissingField => ~(pc = "crashed" /\ exc = "KeyError")

\* the positions of main inside ndo_deploy_status_check
AwaitPcs == {"dst_await1", "src_await1", "dst_await2", "src_await2"}

\* the outcome the tracker recorded in this step
Outcome == calls'[Len(calls')]

\* a step that leaves the tracker records one outcome of the polled task: its
\* terminal status, or a failed poll; a step that stays records nothing
TrackerStep ==
    pc \in AwaitPcs =>
        IF pc' = pc THEN calls' = calls
        ELSE /\ calls' = Append(calls, Outcome)
             /\ Outcome.step = pc /\ Outcome.kind = "await"
             /\ \/ /\ Outcome.res = "Complete" /\ task.status = "Complete"
                   /\ pc' \notin {"loop", "crashed"}
                \/ /\ Outcome.res = "Error" /\ task.status = "Error"
                \/ Outcome.res = "PollFailed"

\* the tracker polls the task of the latest deploy, which it has not observed
\* in a terminal status before
AwaitOnce ==
    pc \in AwaitPcs =>
        /\ task.id = deploy_id
        /\ <<task.id, task.scope>> \in unsettled
        /\ \A k \in DOMAIN UnitCalls : UnitCalls[k].step # pc

\* C25: the tracker keeps polling while the status is neither Complete nor
\* Error, stops at the first poll that observes a terminal status and never
\* polls that task again, returns normally only on Complete, and on Error
\* ends in failure.
C25_TrackerStopsAtTerminalStatus ==
    [](AwaitOnce) /\ [][TrackerStep]_vars

\* C25 witness: the tracker observed Complete on the first destination deploy
\* and main went on to the EPG.
C25_Witness ==
    /\ pc = "dst_epg_add"
    /\ calls[Len(calls)].step = "dst_await1"
    /\ calls[Len(calls)].res = "Complete"
    /\ task.status = "Complete"
    /\ unsettled = {}

\* a tracker positioned on a task in a terminal status returns
Returns(step) ==
    (pc = step /\ task.status \in {"Complete", "Error"}) ~> (pc # step)

\* while the status is Pending or InProgress and the polls succeed, main
\* stays in the tracker and issues no call
Blocked ==
    (pc \in AwaitPcs /\ task.status \in {"Pending", "InProgress"}
        /\ faults' = faults)
        => (pc' = pc /\ calls' = calls /\ i' = i)

\* C26: when the task's status becomes Complete or Error the tracker
\* eventually returns; while it stays Pending or InProgress the tracker keeps
\* polling and main issues no further call and reaches no later phase or
\* unit: there is no timeout.
C26_TrackerReturnsOnlyOnTerminalStatus ==
    /\ Returns("dst_await1") /\ Returns("src_await1")
    /\ Returns("dst_await2") /\ Returns("src_await2")
    /\ [][Blocked]_vars

\* C26 witness: the tracker of the source deploy returned on a task that
\* ended in Error.
C26_Witness ==
    /\ pc = "grace"
    /\ calls[Len(calls)].step = "src_await1"
    /\ calls[Len(calls)].res = "Error"
    /\ task.status = "Error"

\* unit u was skipped with a warning / was acknowledged by the operator
Skipped(u) == \E w \in DOMAIN warnings : warnings[w] = u
Acked(u) == \E a \in DOMAIN acks : acks[a] = u

\* C27: the operator acknowledgment is requested exactly once after each unit
\* that ran through all phases and is not the last, never after the last
\* unit nor after a skipped unit, and unit i+1 starts only after the
\* acknowledgment that follows a completed unit i.
C27_AckBetweenCompletedUnits ==
    /\ pc = "input" =>
           /\ i < items - 1
           /\ ~Skipped(i) /\ ~Acked(i)
           /\ UnitSteps # << >>
           /\ UnitSteps[Len(UnitSteps)] = "src_await2"
    /\ \A a \in DOMAIN acks :
           /\ acks[a] < items - 1
           /\ ~Skipped(acks[a])
           /\ \A b \in DOMAIN acks : acks[a] = acks[b] => a = b
    /\ InLoop =>
           \A u \in 0..(i - 1) : u < items - 1 => (Acked(u) \/ Skipped(u))

\* C27 witness: the first of two units ran through, the operator
\* acknowledged it, and the second unit issued its first call.
C27_Witness ==
    /\ items = 2 /\ i = 1
    /\ acks = <<0>> /\ warnings = << >>
    /\ pc = "dst_bd_site"
    /\ Len(UnitSteps) = 1

\* the objects the run declared on the store (destination objects), and the
\* objects of the snapshot it removed (source objects)
Created == store.declared \ StoreFacts(SchemaTree)
Removed == StoreFacts(SchemaTree) \ store.declared

\* no step removes a created object or declares a removed object again
NoCompensation ==
    /\ \A f \in Created : f \in store.declared'
    /\ \A f \in Removed : f \notin store.declared'

\* C28: the orchestrator never removes a destination object and never re-adds
\* a source object: after a unit stops part-way the changes already applied
\* stay as they are and no compensating call is issued.
C28_NoRollback ==
    [][NoCompensation]_vars

\* C28 witness: a unit stopped after its destination BD was declared (the
\* deploy request failed) and the BD is still declared.
C28_Witness ==
    /\ InLoop /\ pc = "crashed" /\ exc = "AttributeError"
    /\ Created # {}
    /\ UnitSteps # << >>
    /\ UnitSteps[Len(UnitSteps)] = "dst_deploy1"

\* the operation of a patch call is outside the set its function allows:
\* add, remove for the template functions; remove, replace for the site and
\* static-port functions
Unsupported(a) ==
    \/ /\ a.fn \in {"patch_ndo_tmpl_bds", "patch_ndo_tmpl_epgs"}
       /\ a.oper \notin {"add", "remove"}
    \/ /\ a.fn \in {"patch_ndo_site_bds", "patch_ndo_site_epgs",
                     "patch_ndo_epg_static_ports"}
       /\ a.oper \notin {"remove", "replace"}

\* a call with an unsupported operation raises ValueError to the caller and
\* sends nothing; a call with a supported one raises no ValueError
RejectsUnsupported ==
    pc = "call" =>
        IF Unsupported(patch_args')
        THEN /\ exc' = "ValueError" /\ pc' = "crashed"
             /\ calls' = calls /\ store' = store
        ELSE exc' # "ValueError"

\* C29: each patch function called with an operation outside its allowed set
\* raises an error that reaches its caller and sends no HTTP request.
C29_UnsupportedOperationRaises ==
    [][RejectsUnsupported]_vars

\* C29 witness: after one call that was sent, patch_ndo_site_epgs was called
\* with "add" and raised ValueError.
C29_Witness ==
    /\ pc = "crashed" /\ exc = "ValueError"
    /\ patch_args = [fn |-> "patch_ndo_site_epgs", oper |-> "add"]
    /\ Len(calls) = 1

\* the steps of a unit that patch the destination and the source
DstSteps == {"dst_bd_add", "dst_bd_site", "dst_epg_add", "dst_epg_site"}
SrcSteps == {"src_ports", "src_epg_remove", "src_bd_remove"}
DstDeploys == {"dst_deploy1", "dst_deploy2"}
SrcDeploys == {"src_deploy1", "src_deploy2"}

\* the (schema, template) the deploys of a row's side are posted for
RowScope(row) == <<row.schemaId, row.templName>>

\* C31: within a unit every patch targets the (schema, template) scope of
\* the deploy that follows it: destination BD and EPG patches the destination
\* row's schemaId and templName, source static-port and remove patches the
\* source row's schemaId and templName, for every input row.
C31_PatchScopeIsDeployScope ==
    \A k \in DOMAIN calls :
        LET e == calls[k]
        IN  /\ e.step \in DstDeploys => e.scope = RowScope(dst_epgs[e.u + 1])
            /\ e.step \in SrcDeploys => e.scope = RowScope(src_epgs[e.u + 1])
            /\ e.step \in DstSteps => e.scope = RowScope(dst_epgs[e.u + 1])
            /\ e.step \in SrcSteps => e.scope = RowScope(src_epgs[e.u + 1])

\* the schema reads of the history, and the history positions of a kind
Reads == SelectSeq(calls, LAMBDA e : e.kind = "read")
ReadBeforeMutations ==
    \A k \in DOMAIN calls :
        Mutating(calls[k]) =>
            \E r \in 1..(k - 1) : calls[r].kind = "read" /\ calls[r].res = "ok"

\* the lookup of a unit yields what the lookup in the tree as first read
\* yields
ResolveFromSnapshot ==
    (pc = "resolve" /\ pc' # "resolve") =>
        LET st == ResolveSchemas(SchemaTree, 1, Src,
                      [bdT |-> src_bd_tmpl_data, epgT |-> src_epg_tmpl_data,
                       bdS |-> src_bd_site_data, epgS |-> src_epg_site_data,
                       err |-> FALSE])
        IN  /\ src_bd_tmpl_data' = st.bdT
            /\ src_epg_tmpl_data' = st.epgT
            /\ src_bd_site_data' = st.bdS
            /\ src_epg_site_data' = st.epgS
            /\ st.err <=> pc' = "loop"

\* C32: the schema tree is read from the store once per run, before the
\* first mutation; the snapshot holds the objects it was read with whatever
\* the units sent to the store, and every unit resolves its source objects
\* by index in that snapshot.
C32_SchemasReadOnce ==
    /\ [](/\ Len(Reads) <= 1
          /\ ReadBeforeMutations
          /\ ndo_schemas = "Response" =>
                 StoreFacts(ndo_schemas_json) = StoreFacts(SchemaTree))
    /\ [][ResolveFromSnapshot]_vars

\* C32 witness: a later unit has resolved its source objects after the store
\* was changed for an earlier unit, with one schema read in the history.
C32_Witness ==
    /\ pc = "map" /\ i > 0
    /\ Len(Reads) = 1
    /\ store.declared # StoreFacts(SchemaTree)
    /\ src_bd_tmpl_data # Empty /\ src_epg_site_data # Empty
    /\ ~Skipped(i - 1)

====
